---- MODULE Spec2Model ----
(***************************************************************************)
(* Job lifecycle of the Truefact agent service (src/main.py).              *)
(*                                                                         *)
(* The service is a single asyncio process: control switches between       *)
(* tasks only at an await.  Every action below is one stretch of code      *)
(* between two awaits of one coroutine:                                    *)
(*   start_job              lines 119-202  (awaits at 150 and 172)         *)
(*   handle_payment_status  lines 67-102   (awaits at 77 and 82)           *)
(*   get_status             lines 205-232  (await at 218)                  *)
(* The Payment Gateway (masumi Payment) and the Task Executor (the webhook *)
(* behind execute_ai_task) are collaborators outside the repository: each  *)
(* of their calls returns one of a small set of replies or raises.  The    *)
(* polling task of a job awaits the callback it fires, so one completion   *)
(* transition per job is in flight at a time; it may fire the callback     *)
(* again after the callback has returned (spec 4.1: "the polling loop may, *)
(* in degenerate implementations, fire more than once").                   *)
(***************************************************************************)
EXTENDS Integers, FiniteSets, Sequences, TLC

\* ---------------------------------------------------------------- bounds
\* start_job calls, get_status calls and callback invocations of a run
MaxEvents == 4
MaxLiveEvents == 3

JobIds == 1..MaxEvents
GetCalls == 1..MaxEvents

\* ------------------------------------------------------- values of fields
None == "None"

Purchasers == {"p1"}
InputDatas == {[text |-> "t1"], [other |-> "x"]}
\* the gateway issues one blockchainIdentifier per payment request
PaymentIds == {<<"b", j>> : j \in JobIds}
Results == {"r1", "r2"}

\* replies of Payment.create_payment_request: it raises, or returns a
\* mapping with or without data.blockchainIdentifier
CreateReplies == {"raise", "no_id", "ok"}

\* what follows the await of start_status_monitoring: it raises, or it
\* returns and the response is built from a payment_result without or with
\* the time fields read at lines 182-184
MonitorOutcomes == {"raise", "no_times", "ok"}

\* replies of Payment.check_payment_status: it raises, or returns a mapping
\* whose data.status is absent or present ("FundsLocked" stands for any value)
CheckReplies == {"raise", "missing", "FundsLocked"}

ErrTask == "task_error"
ErrPay == "payment_error"
ErrKeyText == "KeyError:text"
ErrKeyJob == "KeyError:job_id"

NoResp == [job_id |-> 0, code |-> 0, status |-> None, payment_status |-> None,
           result |-> None, detail |-> None]
NoStartResp == [job_id |-> 0, code |-> 0, detail |-> None]
NoSchema == [code |-> 0, body |-> ("detail" :> None)]

VARIABLES
    jobs,               \* main.py:63   job_id -> job record
    payment_instances,  \* main.py:64   keys of the dict job_id -> Payment
    monitoring,         \* jobs whose Payment has an active polling task
    callbacks,          \* jobs whose payment_callback was handed to the poller
    sj,                 \* position of the start_job call of each job_id
    startResp,          \* the response start_job sends in this step, if any
    returned,           \* job_ids start_job has sent in a success response
    hps,                \* handle_payment_status coroutine of each job
    gs,                 \* get_status coroutines
    resp,               \* the response get_status sends in this step, if any
    schemaResp,         \* the response input_schema sends in this step, if any
    fires,              \* history: callback invocations per job
    execCalls,          \* history: execute_ai_task invocations per job
    completeCalls,      \* history: complete_payment(job, payment_id) calls
    hpsOutcome,         \* history: how the last transition of a job ended
    firstResult,        \* history: result stored when the job completed
    lastCall,           \* history: outcome of the transition's last awaited call
    wasFailed,          \* history: jobs whose status has been failed
    events              \* history: requests served and callbacks invoked

vars == <<jobs, payment_instances, monitoring, callbacks, sj, startResp, returned,
          hps, gs, resp, schemaResp, fires,
          execCalls, completeCalls, hpsOutcome, firstResult, lastCall,
          wasFailed, events>>

hist == <<fires, execCalls, completeCalls, hpsOutcome, firstResult, lastCall,
          wasFailed>>

IdleHps == [pc |-> "idle", payment_id |-> None, result |-> None]
IdleGs == [pc |-> "idle", job_id |-> 0]
DoneGs == [pc |-> "done", job_id |-> 0]

Init ==
    /\ jobs = <<>>
    /\ payment_instances = {}
    /\ monitoring = {}
    /\ callbacks = {}
    /\ sj = [j \in JobIds |-> "new"]
    /\ startResp = NoStartResp
    /\ returned = {}
    /\ hps = [j \in JobIds |-> IdleHps]
    /\ gs = [c \in GetCalls |-> IdleGs]
    /\ resp = NoResp
    /\ schemaResp = NoSchema
    /\ fires = [j \in JobIds |-> 0]
    /\ execCalls = [j \in JobIds |-> 0]
    /\ completeCalls = {}
    /\ hpsOutcome = [j \in JobIds |-> "none"]
    /\ firstResult = [j \in JobIds |-> None]
    /\ lastCall = [j \in JobIds |-> "none"]
    /\ wasFailed = {}
    /\ events = 0

PutReplaceStore(d, k, v) == [x \in {k} |-> v]

\* dict assignment d[k] = v
Put(d, k, v) == [x \in DOMAIN d \cup {k} |-> IF x = k THEN v ELSE d[x]]

\* ------------------------------------------------------------- start_job
\* lines 178-190
StartSuccess(j) == [job_id |-> j, code |-> 200, detail |-> "success"]

\* lines 191-202: both handlers answer 400, with a detail of their own
StartError(j, detail) == [job_id |-> j, code |-> 400, detail |-> detail]

NewJobPending(payment_id, data, purchaser) ==
    [status |-> "pending",
     payment_status |-> "pending",
     payment_id |-> payment_id,
     input_data |-> data,
     result |-> None,
     error |-> None,
     identifier_from_purchaser |-> purchaser]

\* the record stored at main.py:156-163 (the "error" key is absent: None)
NewJob(payment_id, data, purchaser) ==
    [status |-> "awaiting_payment",
     payment_status |-> "pending",
     payment_id |-> payment_id,
     input_data |-> data,
     result |-> None,
     error |-> None,
     identifier_from_purchaser |-> purchaser]

\* the store-first variant: the record is stored before the payment request
\* is created, and stays when the creation fails
StartJobCreateStoreFirst(j, data, purchaser, reply) ==
    /\ sj[j] = "new"
    /\ events < MaxEvents
    /\ events' = events + 1
    /\ \A k \in JobIds : k < j => sj[k] # "new"
    /\ resp' = NoResp
    /\ schemaResp' = NoSchema
    /\ jobs' = Put(jobs, j, NewJob(IF reply = "ok" THEN <<"b", j>> ELSE None,
                                   data, purchaser))
    /\ IF reply = "raise"
       THEN /\ sj' = [sj EXCEPT ![j] = "done"]
            /\ startResp' = StartError(j, "Error")
            /\ UNCHANGED payment_instances
       ELSE IF reply = "no_id"
       THEN /\ sj' = [sj EXCEPT ![j] = "done"]
            /\ startResp' = StartError(j, "Missing required field")
            /\ UNCHANGED payment_instances
       ELSE /\ payment_instances' = payment_instances \cup {j}
            /\ sj' = [sj EXCEPT ![j] = "monitor"]
            /\ startResp' = NoStartResp
    /\ UNCHANGED <<monitoring, callbacks, returned, hps, gs, hist>>

\* lines 121-172 and the handlers 191-202.  A fresh uuid4 (the ids are taken
\* in order) and the Payment object are local, so nothing another task can
\* see happens before the await of create_payment_request (150) returns.
\* It raised (except Exception), its reply lacks data.blockchainIdentifier
\* (except KeyError), or the job is stored, the Payment is registered and
\* start_status_monitoring is awaited
StartJobCreate(j, data, purchaser, reply) ==
    /\ sj[j] = "new"
    /\ events < MaxEvents
    /\ events' = events + 1
    /\ \A k \in JobIds : k < j => sj[k] # "new"
    /\ resp' = NoResp
    /\ schemaResp' = NoSchema
    /\ IF reply = "raise"
       THEN /\ sj' = [sj EXCEPT ![j] = "done"]
            /\ startResp' = StartError(j, "Error")
            /\ UNCHANGED <<jobs, payment_instances>>
       ELSE IF reply = "no_id"
       THEN /\ sj' = [sj EXCEPT ![j] = "done"]
            /\ startResp' = StartError(j, "Missing required field")
            /\ UNCHANGED <<jobs, payment_instances>>
       ELSE /\ jobs' = Put(jobs, j, NewJob(<<"b", j>>, data, purchaser))
            /\ payment_instances' = payment_instances \cup {j}
            /\ sj' = [sj EXCEPT ![j] = "monitor"]
            /\ startResp' = NoStartResp
    /\ UNCHANGED <<monitoring, callbacks, returned, hps, gs, hist>>

\* lines 172-190 and the handlers 191-202: start_status_monitoring raised, or
\* it returned with the polling task running and the response is built (a
\* payment_result without the time fields raises KeyError at 182)
StartJobAfterMonitor(j, outcome) ==
    /\ sj[j] = "monitor"
    /\ UNCHANGED events
    /\ resp' = NoResp
    /\ schemaResp' = NoSchema
    /\ sj' = [sj EXCEPT ![j] = "done"]
    /\ IF outcome = "raise"
       THEN /\ startResp' = StartError(j, "Error")
            /\ UNCHANGED <<monitoring, callbacks, returned>>
       ELSE /\ monitoring' = monitoring \cup {j}
            /\ callbacks' = callbacks \cup {j}
            /\ IF outcome = "no_times"
               THEN /\ startResp' = StartError(j, "Missing required field")
                    /\ UNCHANGED returned
               ELSE /\ startResp' = StartSuccess(j)
                    /\ returned' = returned \cup {j}
    /\ UNCHANGED <<jobs, payment_instances, hps, gs, hist>>

\* ------------------------------------------------- handle_payment_status
RunningJobKeep(job) == job

\* line 73
RunningJob(job) == [job EXCEPT !.status = "running"]

CompletedJobNoPaymentStatus(job, result) ==
    [job EXCEPT !.status = "completed", !.result = result]

\* lines 86-88
CompletedJob(job, result) ==
    [job EXCEPT !.status = "completed", !.payment_status = "completed",
                !.result = result]

FailedJobNoError(job, msg) == [job EXCEPT !.status = "failed"]

FailedJobClearResult(job, msg) ==
    [job EXCEPT !.status = "failed", !.error = msg, !.result = None]

FailedJobReplaceRecord(job, msg) ==
    [job EXCEPT !.status = "failed", !.error = msg,
                !.payment_id = <<"b", 0>>,
                !.identifier_from_purchaser = None]

FailedJobKeepStatus(job, msg) == [job EXCEPT !.error = msg]

\* lines 96-97
FailedJob(job, msg) == [job EXCEPT !.status = "failed", !.error = msg]

StopMonitoringKeep(j) ==
    IF j \in payment_instances
    THEN /\ monitoring' = monitoring \ {j}
         /\ UNCHANGED payment_instances
    ELSE UNCHANGED <<monitoring, payment_instances>>

StopMonitoringOnlyDelete(j) ==
    IF j \in payment_instances
    THEN /\ payment_instances' = payment_instances \ {j}
         /\ UNCHANGED monitoring
    ELSE UNCHANGED <<monitoring, payment_instances>>

\* lines 91-93 and 100-102: stop_status_monitoring cancels the polling task
\* of the Payment, and the Payment is dropped from payment_instances
StopMonitoring(j) ==
    IF j \in payment_instances
    THEN /\ monitoring' = monitoring \ {j}
         /\ payment_instances' = payment_instances \ {j}
    ELSE UNCHANGED <<monitoring, payment_instances>>

HpsExceptCompletesOnPayError(j, js, msg) ==
    IF j \in DOMAIN js
    THEN /\ jobs' = [js EXCEPT ![j] = IF msg = ErrPay
                                      THEN CompletedJob(@, hps[j].result)
                                      ELSE FailedJob(@, msg)]
         /\ StopMonitoring(j)
         /\ hpsOutcome' = [hpsOutcome EXCEPT ![j] = "returned"]
         /\ wasFailed' = wasFailed \cup {j}
    ELSE /\ jobs' = js
         /\ UNCHANGED <<monitoring, payment_instances, wasFailed>>
         /\ hpsOutcome' = [hpsOutcome EXCEPT ![j] = "raised"]

\* lines 94-102, the except branch, entered from store js with failure msg;
\* a job_id missing from the store raises KeyError out of the handler
HpsExcept(j, js, msg) ==
    IF j \in DOMAIN js
    THEN /\ jobs' = [js EXCEPT ![j] = FailedJob(@, msg)]
         /\ StopMonitoring(j)
         /\ hpsOutcome' = [hpsOutcome EXCEPT ![j] = "returned"]
         /\ wasFailed' = wasFailed \cup {j}
    ELSE /\ jobs' = js
         /\ UNCHANGED <<monitoring, payment_instances, wasFailed>>
         /\ hpsOutcome' = [hpsOutcome EXCEPT ![j] = "raised"]

\* the polling task fires payment_callback (166-167) with the payment id the
\* Payment holds (line 152); lines 69-77 run up to the await of
\* execute_ai_task: status becomes running, input_data["text"] is read
HandlePaymentStatusBegin(j) ==
    /\ j \in callbacks
    /\ hps[j].pc = "idle"
    /\ resp' = NoResp
    /\ schemaResp' = NoSchema
    /\ startResp' = NoStartResp
    /\ events < MaxEvents
    /\ events' = events + 1
    /\ fires' = [fires EXCEPT ![j] = @ + 1]
    /\ lastCall' = [lastCall EXCEPT ![j] = "none"]
    /\ IF j \notin DOMAIN jobs
       THEN /\ HpsExcept(j, jobs, ErrKeyJob)
            /\ UNCHANGED <<hps, execCalls>>
       ELSE IF "text" \notin DOMAIN jobs[j].input_data
       THEN /\ HpsExcept(j, [jobs EXCEPT ![j] = RunningJob(@)], ErrKeyText)
            /\ UNCHANGED <<hps, execCalls>>
       ELSE /\ jobs' = [jobs EXCEPT ![j] = RunningJob(@)]
            /\ hps' = [hps EXCEPT ![j] = [pc |-> "exec",
                                          payment_id |-> jobs[j].payment_id,
                                          result |-> None]]
            /\ execCalls' = [execCalls EXCEPT ![j] = @ + 1]
            /\ UNCHANGED <<monitoring, payment_instances, hpsOutcome, wasFailed>>
    /\ UNCHANGED <<callbacks, sj, returned, gs, completeCalls, firstResult>>

\* lines 77-82: execute_ai_task raised, or it returned result and
\* payment_instances[job_id].complete_payment is awaited (KeyError when the
\* Payment is no longer registered)
HandlePaymentStatusAfterExec(j, reply) ==
    /\ hps[j].pc = "exec"
    /\ UNCHANGED events
    /\ resp' = NoResp
    /\ schemaResp' = NoSchema
    /\ startResp' = NoStartResp
    /\ lastCall' = [lastCall EXCEPT ![j] =
                       IF reply = "raise" THEN "exec_raised" ELSE "exec_returned"]
    /\ IF reply = "raise"
       THEN /\ HpsExcept(j, jobs, ErrTask)
            /\ hps' = [hps EXCEPT ![j] = IdleHps]
            /\ UNCHANGED completeCalls
       ELSE IF j \notin payment_instances
       THEN /\ HpsExcept(j, jobs, ErrKeyJob)
            /\ hps' = [hps EXCEPT ![j] = IdleHps]
            /\ UNCHANGED completeCalls
       ELSE /\ hps' = [hps EXCEPT ![j].pc = "pay", ![j].result = reply]
            /\ completeCalls' = completeCalls \cup {<<j, hps[j].payment_id>>}
            /\ UNCHANGED <<jobs, monitoring, payment_instances, hpsOutcome,
                           wasFailed>>
    /\ UNCHANGED <<callbacks, sj, returned, gs, fires, execCalls, firstResult>>

\* lines 82-93: complete_payment raised, or it returned and the job is
\* marked completed with the result, then monitoring is stopped
HandlePaymentStatusAfterPay(j, ok) ==
    /\ hps[j].pc = "pay"
    /\ UNCHANGED events
    /\ resp' = NoResp
    /\ schemaResp' = NoSchema
    /\ startResp' = NoStartResp
    /\ hps' = [hps EXCEPT ![j] = IdleHps]
    /\ lastCall' = [lastCall EXCEPT ![j] =
                       IF ok THEN "pay_returned" ELSE "pay_raised"]
    /\ IF ~ok
       THEN /\ HpsExcept(j, jobs, ErrPay)
            /\ UNCHANGED firstResult
       ELSE IF j \notin DOMAIN jobs
       THEN /\ HpsExcept(j, jobs, ErrKeyJob)
            /\ UNCHANGED firstResult
       ELSE /\ jobs' = [jobs EXCEPT ![j] = CompletedJob(@, hps[j].result)]
            /\ StopMonitoring(j)
            /\ hpsOutcome' = [hpsOutcome EXCEPT ![j] = "returned"]
            /\ firstResult' = [firstResult EXCEPT ![j] =
                                 IF @ = None THEN hps[j].result ELSE @]
            /\ UNCHANGED wasFailed
    /\ UNCHANGED <<callbacks, sj, returned, gs, fires, execCalls, completeCalls>>

\* ------------------------------------------------------------ get_status
RefreshedStatusKeepsPending(reply) ==
    IF reply \in {"raise", "missing"} THEN "pending" ELSE reply

\* line 219 and 223: the payment_status a check_payment_status reply yields
RefreshedStatus(reply) ==
    IF reply = "raise" THEN "error"
    ELSE IF reply = "missing" THEN "unknown"
    ELSE reply

\* lines 225-232
JobStatus(j, job) ==
    [job_id |-> j, code |-> 200, status |-> job.status,
     payment_status |-> job.payment_status, result |-> job.result,
     detail |-> None]

NotFoundAsEmptyJob(j) == [job_id |-> j, code |-> 200, status |-> None,
                          payment_status |-> None, result |-> None,
                          detail |-> None]

\* line 211
NotFound(j) == [job_id |-> j, code |-> 404, status |-> None,
                payment_status |-> None, result |-> None,
                detail |-> "Job not found"]

\* lines 207-218: 404 for an unknown id; with a registered Payment the
\* coroutine awaits check_payment_status; otherwise it answers at once
GetStatusBegin(c, j) ==
    /\ gs[c].pc = "idle"
    /\ events < MaxEvents
    /\ events' = events + 1
    /\ startResp' = NoStartResp
    /\ schemaResp' = NoSchema
    /\ \A k \in GetCalls : k < c => gs[k].pc # "idle"
    /\ IF j \notin DOMAIN jobs
       THEN /\ resp' = NotFound(j)
            /\ gs' = [gs EXCEPT ![c] = DoneGs]
       ELSE IF j \in payment_instances
       THEN /\ gs' = [gs EXCEPT ![c] = [pc |-> "check", job_id |-> j]]
            /\ resp' = NoResp
       ELSE /\ resp' = JobStatus(j, jobs[j])
            /\ gs' = [gs EXCEPT ![c] = DoneGs]
    /\ UNCHANGED <<jobs, payment_instances, monitoring, callbacks, sj, returned,
                   hps, hist>>

GetStatusAfterCheckFailsJob(c, reply) ==
    /\ gs[c].pc = "check"
    /\ UNCHANGED events
    /\ startResp' = NoStartResp
    /\ schemaResp' = NoSchema
    /\ LET j == gs[c].job_id
           job == [jobs[j] EXCEPT !.payment_status = RefreshedStatus(reply),
                                  !.status = IF reply = "raise" THEN "failed"
                                             ELSE @]
       IN /\ jobs' = [jobs EXCEPT ![j] = job]
          /\ gs' = [gs EXCEPT ![c] = DoneGs]
          /\ resp' = JobStatus(j, job)
    /\ UNCHANGED <<payment_instances, monitoring, callbacks, sj, returned, hps,
                   hist>>

\* lines 218-232: job is the record of the store itself (line 213), so the
\* refresh writes the store and the answer carries the current fields
GetStatusAfterCheck(c, reply) ==
    /\ gs[c].pc = "check"
    /\ UNCHANGED events
    /\ startResp' = NoStartResp
    /\ schemaResp' = NoSchema
    /\ LET j == gs[c].job_id
           job == [jobs[j] EXCEPT !.payment_status = RefreshedStatus(reply)]
       IN /\ jobs' = [jobs EXCEPT ![j] = job]
          /\ gs' = [gs EXCEPT ![c] = DoneGs]
          /\ resp' = JobStatus(j, job)
    /\ UNCHANGED <<payment_instances, monitoring, callbacks, sj, returned, hps,
                   hist>>

\* ------------------------------------------------------------ input_schema
\* lines 234-238
\* InputSchema.model_json_schema(): the JSON Schema document pydantic derives
\* from the class InputSchema (agent/models.py:40-44), a mapping with these
\* keys; it is a description of the model, never an instance of it
SchemaDocument ==
    ("$defs" :> {"InputDataField"}) @@ ("description" :> "InputSchema")
      @@ ("properties" :> {"input_data"}) @@ ("required" :> {"input_data"})
      @@ ("title" :> "InputSchema") @@ ("type" :> "object")

\* what the framework sends for the returned mapping: the mapping as JSON,
\* or, where it validates the return value against the annotation "-> str"
\* of line 235, the response of a failed validation
SchemaResponses ==
    { [code |-> 200, body |-> SchemaDocument],
      [code |-> 500, body |-> ("detail" :> "Internal Server Error")] }

InputSchemaCall ==
    /\ events < MaxEvents
    /\ events' = events + 1
    /\ schemaResp' \in SchemaResponses
    /\ resp' = NoResp
    /\ startResp' = NoStartResp
    /\ UNCHANGED <<jobs, payment_instances, monitoring, callbacks, sj, returned,
                   hps, gs, hist>>

\* ---------------------------------------------------------- specification
Next ==
    \/ \E j \in JobIds, d \in InputDatas, p \in Purchasers, r \in CreateReplies :
         StartJobCreate(j, d, p, r)
    \/ \E j \in JobIds, o \in MonitorOutcomes : StartJobAfterMonitor(j, o)
    \/ \E j \in JobIds : HandlePaymentStatusBegin(j)
    \/ \E j \in JobIds, r \in Results \cup {"raise"} : HandlePaymentStatusAfterExec(j, r)
    \/ \E j \in JobIds, ok \in BOOLEAN : HandlePaymentStatusAfterPay(j, ok)
    \/ \E c \in GetCalls, j \in JobIds : GetStatusBegin(c, j)
    \/ \E c \in GetCalls, r \in CheckReplies : GetStatusAfterCheck(c, r)
    \/ InputSchemaCall

Spec == Init /\ [][Next]_vars

\* every awaited call of a running transition eventually returns or raises:
\* the event loop resumes handle_payment_status after execute_ai_task
\* (line 77) and after complete_payment (line 82)
\* the behaviours checked for liveness serve at most MaxLiveEvents requests
\* and callback invocations
LiveNext ==
    \/ \E j \in JobIds, d \in InputDatas, p \in Purchasers, r \in CreateReplies :
         StartJobCreate(j, d, p, r) /\ events' <= MaxLiveEvents
    \/ \E j \in JobIds, o \in MonitorOutcomes : StartJobAfterMonitor(j, o)
    \/ \E j \in JobIds : HandlePaymentStatusBegin(j) /\ events' <= MaxLiveEvents
    \/ \E j \in JobIds, r \in Results \cup {"raise"} : HandlePaymentStatusAfterExec(j, r)
    \/ \E j \in JobIds, ok \in BOOLEAN : HandlePaymentStatusAfterPay(j, ok)
    \/ \E c \in GetCalls, j \in JobIds :
         GetStatusBegin(c, j) /\ events' <= MaxLiveEvents
    \/ \E c \in GetCalls, r \in CheckReplies : GetStatusAfterCheck(c, r)
    \/ InputSchemaCall /\ events' <= MaxLiveEvents

LiveSpec ==
    /\ Init
    /\ [][LiveNext]_vars
    /\ \A j \in JobIds :
         /\ WF_vars(\E r \in Results \cup {"raise"} :
                      HandlePaymentStatusAfterExec(j, r))
         /\ WF_vars(\E ok \in BOOLEAN : HandlePaymentStatusAfterPay(j, ok))

TypeOK ==
    /\ DOMAIN jobs \subseteq JobIds
    /\ payment_instances \subseteq JobIds
    /\ \A j \in DOMAIN jobs :
         jobs[j].status \in {"awaiting_payment", "running", "completed", "failed"}

\* ------------------------------------------------------ steps of a job
\* the step in which the completion transition of job j ends
TransitionEnds(j) ==
    \/ hps[j].pc # "idle" /\ hps'[j].pc = "idle"
    \/ fires'[j] # fires[j] /\ hps'[j].pc = "idle"

\* the step in which the poller invokes the callback of job j
CallbackInvoked(j) == fires'[j] # fires[j]

Terminal == {"completed", "failed"}

ForwardTransitions ==
    {<<"awaiting_payment", "running">>, <<"running", "completed">>,
     <<"awaiting_payment", "failed">>, <<"running", "failed">>}

\* ---------------------------------------------------------------- claims

\* C1: a job's status changes only along awaiting_payment -> running ->
\* completed or awaiting_payment/running -> failed; a completed or failed
\* job never changes status again.
C1_StatusOnlyForward ==
    [][\A j \in DOMAIN jobs :
         /\ j \in DOMAIN jobs'
         /\ \/ jobs'[j].status = jobs[j].status
            \/ <<jobs[j].status, jobs'[j].status>> \in ForwardTransitions]_vars

\* C2: in the job store and in every get_status response, result is
\* non-null iff status is completed, and error is non-null iff status is
\* failed.
C2_ResultIffCompleted ==
    /\ \A j \in DOMAIN jobs :
         /\ jobs[j].result # None <=> jobs[j].status = "completed"
         /\ jobs[j].error # None <=> jobs[j].status = "failed"
    /\ resp.code = 200 => (resp.result # None <=> resp.status = "completed")

\* C3: invoking the completion transition on a job that is already completed
\* or failed changes nothing of the job and calls neither the Task Executor
\* nor complete_payment.
C3_TerminalInvocationNoOp ==
    [][\A j \in DOMAIN jobs :
         CallbackInvoked(j) /\ jobs[j].status \in Terminal =>
           /\ jobs'[j] = jobs[j]
           /\ execCalls'[j] = execCalls[j]
           /\ completeCalls' = completeCalls]_vars

\* C4: the Task Executor has been invoked for a job only if the poller has
\* fired the completion callback of that job, and never for a job that is
\* still awaiting_payment.
C4_ExecuteOnlyAfterPayment ==
    \A j \in JobIds :
      execCalls[j] > 0 =>
        /\ fires[j] > 0
        /\ j \in DOMAIN jobs
        /\ jobs[j].status # "awaiting_payment"

C4_Witness ==
    \E j \in DOMAIN jobs : execCalls[j] > 0 /\ hps[j].pc = "exec"

\* C5: the step of start_job in which payment-request creation fails sends
\* an error response and leaves the job store and the payment monitors as
\* they were; every awaiting_payment job carries the payment id of a request.
C5_NoOrphanOnCreateFailure ==
    [][/\ \A j \in JobIds :
            sj[j] = "new" /\ sj'[j] = "done" =>
              /\ jobs' = jobs
              /\ payment_instances' = payment_instances
              /\ monitoring' = monitoring
              /\ startResp'.job_id = j
              /\ startResp'.code = 400
       /\ \A j \in DOMAIN jobs' :
            jobs'[j].status = "awaiting_payment" =>
              jobs'[j].payment_id \in PaymentIds]_vars

C5_Witness ==
    /\ startResp.code = 400
    /\ startResp.detail = "Missing required field"
    /\ startResp.job_id \notin DOMAIN jobs
    /\ startResp.job_id \notin payment_instances
    /\ \E j \in DOMAIN jobs : jobs[j].status = "awaiting_payment"

\* the failure description the except branch records, by the call that ended
\* the transition: the Task Executor raised, complete_payment raised, the
\* Payment lookup of line 82 raised KeyError, or input_data["text"] did
FailureDescription(call) ==
    CASE call = "exec_raised" -> ErrTask
      [] call = "pay_raised" -> ErrPay
      [] call = "exec_returned" -> ErrKeyJob
      [] OTHER -> ErrKeyText

C8_FailedNeverCompleted ==
    \A j \in wasFailed : jobs[j].status # "completed"

C8_Witness ==
    \E j \in wasFailed :
      /\ fires[j] >= 2
      /\ lastCall[j] = "exec_returned"
      /\ hps[j].pc = "idle"

\* C9: once a job has completed, the stored result stays the non-null value
\* it completed with, and every get_status response sent for the job from
\* then on carries that value.
C9_CompletedResultStable ==
    /\ \A j \in JobIds :
         firstResult[j] # None =>
           /\ j \in DOMAIN jobs
           /\ jobs[j].result = firstResult[j]
    /\ (resp.code = 200 /\ firstResult[resp.job_id] # None) =>
         resp.result = firstResult[resp.job_id]

C9_Witness ==
    /\ resp.code = 200
    /\ firstResult[resp.job_id] # None
    /\ fires[resp.job_id] >= 2
    /\ resp.status = "failed"

\* C10 as stated: once start_job has answered success with a job_id, every
\* get_status response for that id is found and has a status among
\* awaiting_payment, running and completed.
C10_StatusNeverFailed ==
    resp.job_id \in returned =>
      /\ resp.code = 200
      /\ resp.status \in {"awaiting_payment", "running", "completed"}

\* C10 amended: once start_job has answered success with a job_id, every
\* get_status response for that id is found and has a status among
\* awaiting_payment, running, completed and failed.
C10_StartedJobIsFound ==
    resp.job_id \in returned =>
      /\ resp.code = 200
      /\ resp.status \in {"awaiting_payment", "running", "completed", "failed"}

C10_Witness ==
    /\ resp.job_id \in returned
    /\ resp.code = 200
    /\ resp.status = "failed"

\* the step in which get_status call c is received
GetStatusCalled(c) == gs[c].pc = "idle" /\ gs'[c].pc # "idle"

\* the job_id that call asks for
QueriedJob(c) == IF gs'[c].pc = "check" THEN gs'[c].job_id ELSE resp'.job_id

\* C11: get_status for a job_id that is not in the store answers 404 "Job
\* not found" at once, without a check_payment_status query, and leaves the
\* job store and the payment monitors unchanged.
C11_UnknownJobNotFound ==
    [][\A c \in GetCalls :
         GetStatusCalled(c) /\ QueriedJob(c) \notin DOMAIN jobs =>
           /\ resp'.code = 404
           /\ resp'.detail = "Job not found"
           /\ gs'[c].pc = "done"
           /\ jobs' = jobs
           /\ payment_instances' = payment_instances
           /\ monitoring' = monitoring]_vars

C11_Witness ==
    /\ resp.code = 404
    /\ resp.job_id \notin DOMAIN jobs
    /\ sj[resp.job_id] = "done"
    /\ DOMAIN jobs # {}

\* C12: when check_payment_status raises inside get_status, or its reply
\* carries no status, get_status still answers 200 for the job, with
\* payment_status error (respectively unknown) stored and returned, and with
\* the job's status and result as they were.
C12_RefreshFailureDegrades ==
    [][\A c \in GetCalls : \A reply \in {"raise", "missing"} :
         GetStatusAfterCheck(c, reply) =>
           LET j == gs[c].job_id
               degraded == IF reply = "raise" THEN "error" ELSE "unknown"
           IN /\ resp'.code = 200
              /\ resp'.job_id = j
              /\ jobs'[j].payment_status = degraded
              /\ resp'.payment_status = degraded
              /\ jobs'[j].status = jobs[j].status
              /\ jobs'[j].result = jobs[j].result
              /\ resp'.status = jobs[j].status
              /\ resp'.result = jobs[j].result]_vars

C12_Witness ==
    /\ resp.code = 200
    /\ resp.payment_status = "error"
    /\ resp.status = "completed"
    /\ resp.result \in Results

C14_FreshJobIdKeepsStore ==
    [][/\ startResp'.code = 200 => startResp'.job_id \notin returned
       /\ \A j \in JobIds :
            sj[j] = "new" /\ sj'[j] = "monitor" =>
              /\ j \notin DOMAIN jobs
              /\ j \in DOMAIN jobs'
              /\ \A k \in DOMAIN jobs :
                   k \in DOMAIN jobs' /\ jobs'[k] = jobs[k]]_vars

C14_Witness ==
    /\ startResp.code = 200
    /\ Cardinality(returned) >= 2
    /\ returned \subseteq DOMAIN jobs

PaymentStatuses == {"pending", "completed", "error", "unknown"}

\* C15: every stored job's payment_status is one of pending, completed,
\* error and unknown, whatever check_payment_status returns.
C15_PaymentStatusEnum ==
    \A j \in DOMAIN jobs : jobs[j].payment_status \in PaymentStatuses

\* C16: no step changes the payment_id, the input_data or the
\* identifier_from_purchaser of a stored job, and no step removes the job.
C16_CreationFieldsImmutable ==
    [][\A j \in DOMAIN jobs :
         /\ j \in DOMAIN jobs'
         /\ jobs'[j].payment_id = jobs[j].payment_id
         /\ jobs'[j].input_data = jobs[j].input_data
         /\ jobs'[j].identifier_from_purchaser
              = jobs[j].identifier_from_purchaser]_vars

C16_Witness ==
    \E j \in DOMAIN jobs :
      /\ Cardinality(DOMAIN jobs) >= 2
      /\ jobs[j].status = "failed"
      /\ jobs[j].payment_status = "error"
      /\ jobs[j].payment_id = <<"b", j>>
      /\ jobs[j].input_data \in InputDatas
      /\ jobs[j].identifier_from_purchaser \in Purchasers

\* C17: the response of input_schema is a mapping whose input_data is a
\* non-empty list, every element of which carries id, type, name and data.
C17_SchemaListsInputFields ==
    schemaResp.code # 0 =>
      /\ schemaResp.code = 200
      /\ "input_data" \in DOMAIN schemaResp.body
      /\ Len(schemaResp.body["input_data"]) > 0
      /\ \A i \in 1..Len(schemaResp.body["input_data"]) :
           {"id", "type", "name", "data"}
             \subseteq DOMAIN schemaResp.body["input_data"][i]

\* C18: once the completion callback of a stored job has fired, and every
\* awaited call returns or raises, the job eventually has status completed
\* or failed: it stays neither awaiting_payment nor running forever.
C18_FiredJobEventuallyTerminal ==
    \A j \in JobIds :
      (j \in DOMAIN jobs /\ fires[j] > 0)
        ~> (j \in DOMAIN jobs /\ jobs[j].status \in Terminal)

C18_Witness ==
    \E j \in returned :
      /\ fires[j] = 1
      /\ hps[j].pc = "idle"
      /\ lastCall[j] = "pay_returned"
      /\ jobs[j].status = "completed"

\* C19: a step of get_status leaves the set of jobs, the registered Payments
\* and the monitors as they are, and changes no field of any job except,
\* at most, the payment_status of the job it was asked about.
C19_GetStatusWritesOnlyPaymentStatus ==
    [][\A c \in GetCalls :
         gs'[c] # gs[c] =>
           /\ DOMAIN jobs' = DOMAIN jobs
           /\ payment_instances' = payment_instances
           /\ monitoring' = monitoring
           /\ \A k \in DOMAIN jobs :
                /\ jobs'[k] = [jobs[k] EXCEPT
                                 !.payment_status = jobs'[k].payment_status]
                /\ k # QueriedJob(c) => jobs'[k] = jobs[k]]_vars

C19_Witness ==
    /\ resp.code = 200
    /\ resp.status = "awaiting_payment"
    /\ resp.payment_status = "FundsLocked"
    /\ jobs[resp.job_id].payment_status = "FundsLocked"
    /\ \E k \in DOMAIN jobs : k # resp.job_id /\ jobs[k].payment_status = "pending"

\* C20: a job whose status is completed has payment_status completed, in the
\* store and in the response of get_status, however a refresh that awaited
\* check_payment_status interleaves with the completion transition.
C20_CompletedKeepsPaymentCompleted ==
    /\ \A j \in DOMAIN jobs :
         jobs[j].status = "completed" => jobs[j].payment_status = "completed"
    /\ resp.code = 200 /\ resp.status = "completed"
         => resp.payment_status = "completed"

\* C21: when start_job has answered with an error, the store holds no job and
\* payment_instances no Payment of that call; every job of a finished
\* start_job was returned in a success response.
C21_ErrorLeavesNoRecord ==
    /\ startResp.code \notin {0, 200} =>
         /\ startResp.job_id \notin DOMAIN jobs
         /\ startResp.job_id \notin payment_instances
    /\ \A j \in DOMAIN jobs : sj[j] = "done" => j \in returned

\* C22: complete_payment is called for a job only in the step in which
\* execute_ai_task returned a result for it, never when it raised; the status
\* of a job becomes completed only in the step in which that complete_payment
\* returned; and when complete_payment raises, the job ends failed with its
\* result still None.
C22_PaymentCompletedBetweenTaskAndStatus ==
    [][\A j \in JobIds :
         /\ (hps[j].pc # "pay" /\ hps'[j].pc = "pay") =>
              /\ hps[j].pc = "exec"
              /\ lastCall'[j] = "exec_returned"
              /\ hps'[j].result \in Results
              /\ <<j, jobs[j].payment_id>> \in completeCalls'
         /\ (hps[j].pc = "exec" /\ lastCall'[j] = "exec_raised") =>
              /\ hps'[j].pc = "idle"
              /\ completeCalls' = completeCalls
         /\ (j \in DOMAIN jobs' /\ jobs'[j].status = "completed"
               /\ (j \notin DOMAIN jobs \/ jobs[j].status # "completed")) =>
              /\ hps[j].pc = "pay"
              /\ lastCall'[j] = "pay_returned"
              /\ jobs'[j].result = hps[j].result
         /\ (hps[j].pc = "pay" /\ lastCall'[j] = "pay_raised") =>
              /\ hps'[j].pc = "idle"
              /\ jobs'[j].status = "failed"
              /\ jobs'[j].result = None
              /\ jobs'[j].error = ErrPay]_vars

C22_Witness ==
    \E j, k \in DOMAIN jobs :
      /\ lastCall[j] = "pay_raised" /\ hps[j].pc = "idle"
      /\ jobs[j].status = "failed" /\ jobs[j].result = None
      /\ <<j, jobs[j].payment_id>> \in completeCalls
      /\ lastCall[k] = "exec_raised" /\ hps[k].pc = "idle"
      /\ <<k, jobs[k].payment_id>> \notin completeCalls

\* C23: a job_id is in payment_instances exactly when the store holds the
\* job with status awaiting_payment or running.
C23_MonitorIffNonTerminal ==
    \A j \in JobIds :
      j \in payment_instances
        <=> (j \in DOMAIN jobs
               /\ jobs[j].status \in {"awaiting_payment", "running"})

====
